---- MODULE Spec2Model ----
(***************************************************************************)
(* Model of src/main.py: ingestion of parquet trip files into the DuckDB   *)
(* table raw_taxi_trips.                                                   *)
(*                                                                         *)
(* Values are written as text: an SQL value is the text of its literal     *)
(* ("0", "0.0", "1"), a string value is its characters, and Null is the    *)
(* SQL NULL.  Python's True / False / None results are "True", "False",    *)
(* "None".  A path is the sequence of its components.                      *)
(***************************************************************************)
EXTENDS Integers, Sequences, FiniteSets, TLC

VARIABLES
    registry,    \* which registry is in force (see fields)
    map_status,  \* how the last precompute_field_mappings call ended
    dir,         \* data directory: parquet file name -> [columns, rows]
    table,       \* the database: table raw_taxi_trips
    field_map,   \* main's field_map
    listing,     \* main's parquet_filenames, in os.listdir order
    idx,         \* position of the for loop in listing
    pc,          \* where main is: "idle", "loop", "done", "exited"
    run,         \* number of runs of main started so far
    ingested,    \* files whose bulk insert has succeeded at least once
    last         \* what the most recent loop iteration did

vars == <<registry, map_status, dir, table, field_map, listing, idx, pc, run,
          ingested, last>>

\* ------------------------------------------------------------------ bounds
MaxRuns == 2        \* runs of main against the same database
MaxRows == 3        \* rows of the file in a one-file directory
MaxPairRows == 1    \* rows of each file in a two-file directory
MaxAliases == 2     \* aliases of one descriptor in a drawn registry

Null == "NULL"

\* ------------------------------------------------------- src/main.py 17-55
TYPE_MAPPING == [int |-> "INT", str |-> "STRING", float |-> "DOUBLE", bool |-> "BOOLEAN"]

\* A dataclass field: name, annotated type, default (Python kind and str()),
\* and metadata.get("aliases", []).
Field(name, type, kind, repr, aliases) ==
    [name |-> name, type |-> type,
     default |-> [kind |-> kind, repr |-> repr], aliases |-> aliases]

TaxiTrip == <<
    Field("vendor_id", "int", "int", "0", <<"VendorID">>),
    Field("tpep_pickup_datetime", "str", "none", "None", <<>>),
    Field("tpep_dropoff_datetime", "str", "none", "None", <<>>),
    Field("passenger_count", "int", "int", "0", <<>>),
    Field("trip_distance", "float", "float", "0.0", <<>>),
    Field("ratecode_id", "int", "int", "0", <<"RatecodeID">>),
    Field("store_and_fwd_flag", "str", "none", "None", <<>>),
    Field("pu_location_id", "int", "int", "0", <<"PULocationID">>),
    Field("do_location_id", "int", "int", "0", <<"DOLocationID">>),
    Field("payment_type", "int", "int", "0", <<>>),
    Field("fare_amount", "float", "float", "0.0", <<>>),
    Field("extra", "float", "float", "0.0", <<>>),
    Field("mta_tax", "float", "float", "0.0", <<>>),
    Field("tip_amount", "float", "float", "0.0", <<>>),
    Field("tolls_amount", "float", "float", "0.0", <<>>),
    Field("improvement_surcharge", "float", "float", "0.0", <<>>),
    Field("total_amount", "float", "float", "0.0", <<>>),
    Field("congestion_surcharge", "float", "float", "0.0", <<>>),
    Field("airport_fee", "float", "float", "0.0", <<"Airport_fee">>) >>

\* fields(TaxiTrip): the descriptors of the registry in force.  The program's
\* registry is TaxiTrip; a drawn registry has two descriptors with the drawn
\* alias lists.
fields ==
    IF registry.dataclass = "TaxiTrip"
    THEN TaxiTrip
    ELSE << Field("vendor_id", "int", "int", "0", registry.aliases[1]),
            Field("ratecode_id", "int", "int", "0", registry.aliases[2]) >>

InList(x, list) == \E i \in 1..Len(list) : list[i] = x

\* dict assignment d[k] = v: a later assignment to the same key overwrites.
DictSet(d, k, v) == [x \in (DOMAIN d) \cup {k} |-> IF x = k THEN v ELSE d[x]]

\* ------------------------------------------------------- src/main.py 58-85
\* get_type_hints(TaxiTrip): the annotated type of each name of the global
\* class TaxiTrip, whatever dataclass the field at hand belongs to.
TaxiTripTypeHints ==
    [n \in {TaxiTrip[i].name : i \in 1..Len(TaxiTrip)} |->
        TaxiTrip[CHOOSE i \in 1..Len(TaxiTrip) : TaxiTrip[i].name = n].type]

\* Only the field's name is read: .get(field.name) is None for a name TaxiTrip
\* does not have, and TYPE_MAPPING.get(None, "STRING") is "STRING".
map_python_type_to_duckdb(field_obj) ==
    LET field_type == IF field_obj.name \in DOMAIN TaxiTripTypeHints
                      THEN TaxiTripTypeHints[field_obj.name]
                      ELSE "None"
    IN  IF field_type \in DOMAIN TYPE_MAPPING
        THEN TYPE_MAPPING[field_type]
        ELSE "STRING"

\* The column list of the generated CREATE TABLE statement.
fields_definitions(dataclass) ==
    [i \in 1..(Len(dataclass) + 1) |->
        IF i <= Len(dataclass)
        THEN [name |-> dataclass[i].name, type |-> map_python_type_to_duckdb(dataclass[i])]
        ELSE [name |-> "file_name", type |-> "STRING"]]

NoTable == [exists |-> FALSE, name |-> "", columns |-> <<>>, rows |-> <<>>]

\* CREATE OR REPLACE instead of CREATE ... IF NOT EXISTS.
create_table_replacing(con, table_name, dataclass) ==
    [exists |-> TRUE, name |-> table_name,
     columns |-> fields_definitions(dataclass), rows |-> <<>>]

\* CREATE TABLE IF NOT EXISTS: an existing table of that name is left alone.
create_table_from_dataclass(con, table_name, dataclass) ==
    IF con.exists /\ con.name = table_name
    THEN con
    ELSE [exists |-> TRUE, name |-> table_name,
          columns |-> fields_definitions(dataclass), rows |-> <<>>]

\* ------------------------------------------------------ src/main.py 88-105
RECURSIVE add_aliases(_, _, _, _)
add_aliases(field_mapping, aliases, normalized_field_name, k) ==
    IF k > Len(aliases)
    THEN field_mapping
    ELSE add_aliases(DictSet(field_mapping, aliases[k], normalized_field_name),
                     aliases, normalized_field_name, k + 1)

RECURSIVE map_fields(_, _, _)
map_fields(field_mapping, dataclass_fields, i) ==
    IF i > Len(dataclass_fields)
    THEN field_mapping
    ELSE map_fields(
            add_aliases(DictSet(field_mapping, dataclass_fields[i].name,
                                dataclass_fields[i].name),
                        dataclass_fields[i].aliases, dataclass_fields[i].name, 1),
            dataclass_fields, i + 1)

\* Returns normally for every registry: nothing in it raises.
precompute_field_mappings(dataclass_fields) ==
    [status |-> "ok", field_mapping |-> map_fields(<<>>, dataclass_fields, 1)]

\* ----------------------------------------------------- src/main.py 108-125
file_name_column(con) ==
    CHOOSE i \in 1..Len(con.columns) : con.columns[i].name = "file_name"

\* SELECT COUNT(*) FROM raw_taxi_trips WHERE file_name = ?
count_rows(con, file_name) ==
    Cardinality({i \in 1..Len(con.rows) :
                    con.rows[i][file_name_column(con)] = file_name})

\* The query raises when the engine fails (query_ok false) or the table is
\* missing; the except branch logs and falls off the end, returning None.
\* COUNT(*) always yields one row, so the "unexpected result" branch (lines
\* 119-123) is never taken.
file_already_imported(con, file_name, query_ok) ==
    IF query_ok /\ con.exists /\ con.name = "raw_taxi_trips"
    THEN IF count_rows(con, file_name) > 0 THEN "True" ELSE "False"
    ELSE "None"

\* Python's "not x" for the values file_already_imported can return.
py_not(x) == x \in {"False", "None"}

\* ----------------------------------------------------- src/main.py 127-134
os_path_join(data_dir, file_name) == <<data_dir, file_name>>
os_path_basename(file_path) == file_path[Len(file_path)]

file_readable(fs, file_path) ==
    /\ Len(file_path) = 2
    /\ file_path[1] = "data"
    /\ file_path[2] \in DOMAIN fs

\* SELECT * FROM read_parquet(file_path) LIMIT 0; any error gives [].
get_parquet_columns(fs, file_path, discovery_ok) ==
    IF discovery_ok /\ file_readable(fs, file_path)
    THEN fs[os_path_basename(file_path)].columns
    ELSE <<>>

\* ----------------------------------------------------- src/main.py 136-166
default_value_str(default_value) ==
    CASE default_value.kind = "str" /\ default_value.repr # ""
            -> "'" \o default_value.repr \o "'"
      [] default_value.kind = "str" /\ default_value.repr = "" -> "NULL"
      [] default_value.kind \in {"int", "float", "bool"} -> default_value.repr
      [] OTHER -> "NULL"

\* The value the engine reads from the literal default_value_str renders.
literal_value(default_value) ==
    CASE default_value.kind = "str" /\ default_value.repr # "" -> default_value.repr
      [] default_value.kind \in {"int", "float", "bool"} -> default_value.repr
      [] OTHER -> Null

\* One iteration of the loop over fields(TaxiTrip): the select expression of
\* one field, as text (sql) and as the expression the engine evaluates.
select_item(field_obj, field_map_arg, parquet_columns) ==
    LET normalized_field == field_obj.name
        raw_field == IF normalized_field \in DOMAIN field_map_arg
                     THEN field_map_arg[normalized_field]
                     ELSE normalized_field
        dvs == default_value_str(field_obj.default)
    IN  IF InList(raw_field, parquet_columns)
        THEN [kind |-> "coalesce", column |-> raw_field,
              value |-> literal_value(field_obj.default), alias |-> "",
              sql |-> "COALESCE(" \o raw_field \o ", " \o dvs \o ")"]
        ELSE [kind |-> "const", column |-> "",
              value |-> literal_value(field_obj.default), alias |-> normalized_field,
              sql |-> dvs \o " AS " \o normalized_field]

file_name_item(file_path) ==
    [kind |-> "const", column |-> "", value |-> os_path_basename(file_path),
     alias |-> "file_name",
     sql |-> "'" \o os_path_basename(file_path) \o "' AS file_name"]

\* Also passes through every file column that is no canonical field.
select_clause_with_extras(field_map_arg, file_path, parquet_columns) ==
    LET known == {fields[i].name : i \in 1..Len(fields)}
        extras == SelectSeq(parquet_columns, LAMBDA c : c \notin known)
    IN  [i \in 1..Len(fields) |-> select_item(fields[i], field_map_arg, parquet_columns)]
        \o [i \in 1..Len(extras) |->
                [kind |-> "coalesce", column |-> extras[i], value |-> Null,
                 alias |-> "", sql |-> extras[i]]]
        \o <<file_name_item(file_path)>>

\* The list select_clause before it is joined.
select_clause(field_map_arg, file_path, parquet_columns) ==
    [i \in 1..(Len(fields) + 1) |->
        IF i <= Len(fields)
        THEN select_item(fields[i], field_map_arg, parquet_columns)
        ELSE file_name_item(file_path)]

RECURSIVE join_sql(_, _)
join_sql(items, i) ==
    IF i > Len(items) THEN ""
    ELSE IF i = Len(items) THEN items[i].sql
    ELSE items[i].sql \o ", " \o join_sql(items, i + 1)

\* ', '.join(select_clause)
generate_select_statement(field_map_arg, file_path, parquet_columns) ==
    join_sql(select_clause(field_map_arg, file_path, parquet_columns), 1)

\* ----------------------------------------------------- src/main.py 169-171
generate_insert_statement(select_sql, file_path) ==
    "INSERT INTO raw_taxi_trips SELECT " \o select_sql
        \o " FROM read_parquet('" \o file_path[1] \o "/" \o file_path[2] \o "')"

\* ----------------------------------------------------- src/main.py 174-191
column_index(columns, name) == CHOOSE i \in 1..Len(columns) : columns[i] = name

\* The engine's value of one select expression on one source row.
eval_item(item, columns, source_row) ==
    IF item.kind = "coalesce"
    THEN LET v == source_row[column_index(columns, item.column)]
         IN  IF v = Null THEN item.value ELSE v
    ELSE item.value

\* Whether the engine accepts INSERT INTO raw_taxi_trips SELECT items FROM
\* read_parquet(file_path): the table and the file exist, every column the
\* select names is a column of the file, and the select has one expression
\* per table column (the insert is positional).
statement_valid(con, items, fs, file_path) ==
    /\ con.exists /\ con.name = "raw_taxi_trips"
    /\ file_readable(fs, file_path)
    /\ Len(items) = Len(con.columns)
    /\ \A i \in 1..Len(items) :
          items[i].kind = "coalesce"
              => InList(items[i].column, fs[os_path_basename(file_path)].columns)

\* The rows the statement selects, in file order.
selected_rows(items, fs, file_path) ==
    LET src == fs[os_path_basename(file_path)]
    IN  [r \in 1..Len(src.rows) |->
            [i \in 1..Len(items) |-> eval_item(items[i], src.columns, src.rows[r])]]

\* con.execute(insert_sql): one statement, all of its rows or none.
execute_insert(con, items, fs, file_path, engine_ok) ==
    IF engine_ok /\ statement_valid(con, items, fs, file_path)
    THEN [ok |-> TRUE,
          con |-> [con EXCEPT !.rows = @ \o selected_rows(items, fs, file_path)]]
    ELSE [ok |-> FALSE, con |-> con]

\* env: which calls into the engine succeed (discovery_ok, insert_ok).
\* get_parquet_columns swallows its own error, so the insert is executed
\* whatever discovery did; an error of the insert is caught and logged.
bulk_insert_records_from_parquet(con, fs, file_path, field_map_arg, env) ==
    LET parquet_columns == get_parquet_columns(fs, file_path, env.discovery_ok)
        items == select_clause(field_map_arg, file_path, parquet_columns)
        res == execute_insert(con, items, fs, file_path, env.insert_ok)
    IN  [con |-> res.con,
         discovery |-> IF env.discovery_ok /\ file_readable(fs, file_path)
                       THEN "ok" ELSE "error",
         insert_executed |-> TRUE,
         insert_ok |-> res.ok,
         raised |-> FALSE]

\* ---------------------------------------------------------- the directory
ParquetNames == {"a.parquet", "b.parquet"}
DatabaseFile == "taxi_trips.duckdb"

\* f.endswith(".parquet") on the names a directory can hold.
endswith_parquet(f) == f \in ParquetNames

\* os.listdir(data_dir): the parquet files and the database file main created.
os_listdir(fs) == (DOMAIN fs) \cup {DatabaseFile}

\* The values a column of a file can hold in a row.
ColVals(c) ==
    CASE c \in {"vendor_id", "VendorID"} -> {Null, "1", "2"}
      [] c = "store_and_fwd_flag" -> {Null, "Y"}
      [] c \in {"airport_fee", "Airport_fee"} -> {Null, "1.25"}
      [] c = "passenger_count" -> {"3"}
      [] OTHER -> {"7"}

\* Column lists of the files: canonical names, aliases, unknown columns.
FileShapes ==
    { <<"vendor_id">>, <<"VendorID">>, <<"store_and_fwd_flag">>, <<"Airport_fee">>,
      <<"extra_col">>, <<"vendor_id", "extra_col">>, <<"VendorID", "extra_col">> }

PairShapes == { <<"passenger_count">> }

RowsOf(shape) ==
    {r \in [1..Len(shape) -> {Null, "1", "2", "3", "Y", "1.25", "7"}] :
        \A i \in 1..Len(shape) : r[i] \in ColVals(shape[i])}

Contents(shapes, max_rows) ==
    UNION { { [columns |-> sh, rows |-> rs] :
                rs \in UNION {[1..n -> RowsOf(sh)] : n \in 0..max_rows} }
            : sh \in shapes }

Directories ==
    {<<>>}
    \cup { [f \in {"a.parquet"} |-> c] : c \in Contents(FileShapes, MaxRows) }
    \cup [ParquetNames -> Contents(PairShapes, MaxPairRows)]

\* ------------------------------------------------------------------- Init
NoIteration ==
    [run |-> 0, file |-> "", imported |-> "", was_ingested |-> FALSE,
     count_before |-> 0, bulk_called |-> FALSE, discovery |-> "none",
     insert_executed |-> FALSE, insert_ok |-> FALSE, raised |-> FALSE,
     env |-> [query_ok |-> TRUE, discovery_ok |-> TRUE, insert_ok |-> TRUE]]

InitProgram ==
    /\ map_status = "none"
    /\ table = NoTable
    /\ field_map = <<>>
    /\ listing = <<>>
    /\ idx = 1
    /\ pc = "idle"
    /\ run = 0
    /\ ingested = {}
    /\ last = NoIteration

Init ==
    /\ registry = [dataclass |-> "TaxiTrip", aliases |-> <<>>]
    /\ dir \in Directories
    /\ InitProgram

\* ---------------------------------------------------------------- actions
Orders(S) == {s \in [1..Cardinality(S) -> S] : \A i, j \in DOMAIN s : i # j => s[i] # s[j]}

\* main, lines 194-220: connect, create the table, build the mapping, list
\* the directory; with no parquet file the process sleeps and exits 0.
StartRun ==
    /\ pc \in {"idle", "done", "exited"}
    /\ run < MaxRuns
    /\ run' = run + 1
    /\ table' = create_table_from_dataclass(table, "raw_taxi_trips", fields)
    /\ map_status' = precompute_field_mappings(fields).status
    /\ field_map' = precompute_field_mappings(fields).field_mapping
    /\ listing' \in Orders({f \in os_listdir(dir) : endswith_parquet(f)})
    /\ idx' = 1
    /\ pc' = IF listing' = <<>> THEN "exited" ELSE "loop"
    /\ UNCHANGED <<registry, dir, ingested, last>>

\* main, lines 223-229: one iteration of the loop over parquet_filenames.
LoopIteration ==
    /\ pc = "loop"
    /\ idx <= Len(listing)
    /\ \E query_fails \in BOOLEAN, discovery_fails \in BOOLEAN, insert_fails \in BOOLEAN :
        LET file_name == listing[idx]
            env == [query_ok |-> ~query_fails, discovery_ok |-> ~discovery_fails,
                    insert_ok |-> ~insert_fails]
            imported == file_already_imported(table, file_name, env.query_ok)
            res == bulk_insert_records_from_parquet(
                       table, dir, os_path_join("data", file_name), field_map, env)
            seen == [run |-> run, file |-> file_name, imported |-> imported,
                     was_ingested |-> file_name \in ingested,
                     count_before |-> count_rows(table, file_name), env |-> env]
        IN  IF py_not(imported)
            THEN /\ table' = res.con
                 /\ ingested' = IF res.insert_ok THEN ingested \cup {file_name} ELSE ingested
                 /\ last' = [bulk_called |-> TRUE, discovery |-> res.discovery,
                             insert_executed |-> res.insert_executed,
                             insert_ok |-> res.insert_ok, raised |-> res.raised] @@ seen
            ELSE /\ table' = table
                 /\ ingested' = ingested
                 /\ last' = [bulk_called |-> FALSE, discovery |-> "none",
                             insert_executed |-> FALSE, insert_ok |-> FALSE,
                             raised |-> FALSE] @@ seen
    /\ idx' = idx + 1
    /\ UNCHANGED <<registry, map_status, dir, field_map, listing, pc, run>>

\* main, line 231: the loop is over, the run completes.
RunCompleted ==
    /\ pc = "loop"
    /\ idx > Len(listing)
    /\ pc' = "done"
    /\ UNCHANGED <<registry, map_status, dir, table, field_map, listing, idx, run,
                   ingested, last>>

Next == StartRun \/ LoopIteration \/ RunCompleted

Spec == Init /\ [][Next]_vars

\* ------------------------------------------------- registries for C8
AliasNames == {"VendorID", "RatecodeID", "ratecode_id"}

AliasLists ==
    {a \in UNION {[1..n -> AliasNames] : n \in 0..MaxAliases} :
        \A i, j \in DOMAIN a : i # j => a[i] # a[j]}

Registries ==
    { [dataclass |-> "drawn", aliases |-> <<a1, a2>>] : a1, a2 \in AliasLists }

\* Two descriptors claim the same alias, or an alias of one is the canonical
\* name of another.
Malformed(reg) ==
    \E i, j \in 1..Len(reg) :
        /\ i # j
        /\ \E k \in 1..Len(reg[i].aliases) :
              \/ InList(reg[i].aliases[k], reg[j].aliases)
              \/ reg[i].aliases[k] = reg[j].name

InitMap ==
    /\ registry \in Registries
    /\ dir = [f \in {"a.parquet"} |->
                [columns |-> <<"RatecodeID">>, rows |-> << <<"1">>, <<Null>> >>]]
    /\ InitProgram

SpecMap == InitMap /\ [][Next]_vars

\* ------------------------------------------------ what the claims speak of
LastPath == os_path_join("data", last.file)
LastSource == dir[last.file]

\* The engine was willing: discovery and the insert met no engine failure.
LastEngineOk == last.bulk_called /\ last.env.discovery_ok /\ last.env.insert_ok

\* The rows the last iteration appended (when its insert succeeded).
NewRows ==
    SubSeq(table.rows, Len(table.rows) - Len(LastSource.rows) + 1, Len(table.rows))

CanonicalNames == {fields[i].name : i \in 1..Len(fields)}
NamesOf(i) == {fields[i].name} \cup {fields[i].aliases[k] : k \in 1..Len(fields[i].aliases)}
KnownNames == UNION {NamesOf(i) : i \in 1..Len(fields)}

\* The canonical name a source column denotes.
CanonicalOf(c) ==
    IF \E i \in 1..Len(fields) : c \in NamesOf(i)
    THEN fields[CHOOSE i \in 1..Len(fields) : c \in NamesOf(i)].name
    ELSE c

\* The same file with every column named canonically.
Canonicalized(content) ==
    [columns |-> [j \in 1..Len(content.columns) |-> CanonicalOf(content.columns[j])],
     rows |-> content.rows]

\* The same file without its unrecognized columns.
KeptColumns(content) ==
    SelectSeq([j \in 1..Len(content.columns) |-> j],
              LAMBDA j : content.columns[j] \in KnownNames)
WithoutUnknown(content) ==
    LET keep == KeptColumns(content)
    IN  [columns |-> [k \in 1..Len(keep) |-> content.columns[keep[k]]],
         rows |-> [r \in 1..Len(content.rows) |->
                     [k \in 1..Len(keep) |-> content.rows[r][keep[k]]]]]

\* The rows a successful ingestion of `content`, stored under the last
\* iteration's file name, appends.
RowsIngestedFrom(content) ==
    selected_rows(select_clause(field_map, LastPath, content.columns),
                  [f \in {last.file} |-> content], LastPath)

HasAliasColumn(content) ==
    \E j \in 1..Len(content.columns) : content.columns[j] \notin CanonicalNames
                                       /\ content.columns[j] \in KnownNames
HasUnknownColumn(content) ==
    \E j \in 1..Len(content.columns) : content.columns[j] \notin KnownNames

\* ------------------------------------------------------------------ claims

\* C1: once a file has been ingested in an earlier run, a later run leaves the
\* table with exactly the rows of one ingestion of it; the rows it stored make
\* file_already_imported true, so bulk_insert_records_from_parquet is not
\* called for it again.
C1_Idempotence ==
    (last.was_ingested /\ last.run >= 2)
        => /\ count_rows(table, last.file) = Len(LastSource.rows)
           /\ (Len(LastSource.rows) > 0
                  => last.imported = "True" /\ ~last.bulk_called)

\* C2: a file that names columns by registered aliases is ingested with the
\* same canonical-field values as the same file naming them canonically
\* (VendorID [1, null, 2] gives vendor_id 1, 0, 2).
C2_AliasEquivalence ==
    (LastEngineOk /\ HasAliasColumn(LastSource))
        => /\ last.insert_ok
           /\ NewRows = RowsIngestedFrom(Canonicalized(LastSource))

\* C3: a failed ledger query is a hard error: no bulk load of the file is
\* attempted and the failure surfaces (the run aborts).
C3_LedgerFailureIsFatal ==
    last.imported = "None" => (~last.bulk_called /\ last.raised)

\* C4: for every canonical field, a file without its column stores the
\* default in every row; a file with the column (under the canonical name or
\* an alias) stores the default where the source is null and the source value
\* elsewhere.
C4_DefaultSubstitution ==
    LastEngineOk
        => /\ last.insert_ok
           /\ \A i \in 1..Len(fields) :
                LET present == {j \in 1..Len(LastSource.columns) :
                                    LastSource.columns[j] \in NamesOf(i)}
                    default == literal_value(fields[i].default)
                IN  \A r \in 1..Len(NewRows) :
                        /\ present = {} => NewRows[r][i] = default
                        /\ \A j \in present :
                              NewRows[r][i] = IF LastSource.rows[r][j] = Null
                                              THEN default
                                              ELSE LastSource.rows[r][j]

\* C5: when discovery or the insert of a file fails, the call returns without
\* raising, the file contributes no rows, and the loop goes on to the end of
\* the listing.
C5_FailureIsolation ==
    (last.bulk_called /\ (last.discovery = "error" \/ ~last.insert_ok))
        => /\ ~last.raised
           /\ count_rows(table, last.file) = last.count_before
           /\ (pc = "done" /\ last.run = run => idx = Len(listing) + 1)

\* C6: when reading the column list fails, no INSERT is executed for the file
\* and no row tagged with it is added; the run continues.
C6_DiscoveryErrorSkipsFile ==
    last.discovery = "error"
        => /\ ~last.insert_executed
           /\ count_rows(table, last.file) = last.count_before
           /\ ~last.raised

\* C7: every row ingested from a file carries that file's name, and after a
\* successful ingestion the rows with that provenance are as many as the
\* rows of the file.
C7_Provenance ==
    last.insert_ok
        => /\ \A r \in 1..Len(NewRows) :
                NewRows[r][file_name_column(table)] = last.file
           /\ count_rows(table, last.file) = Len(LastSource.rows)

\* C8: with a malformed registry, building the mapping fails with a
\* ConfigurationError and no file is processed.
C8_ConfigurationError ==
    (Malformed(fields) /\ run >= 1)
        => /\ map_status = "ConfigurationError"
           /\ last.file = ""
           /\ table.rows = <<>>

ColumnNames(con) == {con.columns[i].name : i \in 1..Len(con.columns)}

\* A step that provisions: it leaves a table, the run goes on, and the rows of
\* a table that existed are unchanged.
ProvisioningKeepsRows ==
    run' = run + 1
        => /\ table'.exists
           /\ pc' \in {"loop", "exited"}
           /\ (table.exists => table'.rows = table.rows)

\* C9 (as claimed): after any number of provisionings the table's columns are
\* exactly the canonical fields plus the one provenance column source_file;
\* provisioning an existing table neither fails nor changes its rows.
C9_SchemaClosure_source_file ==
    [][ /\ table'.exists
            => /\ ColumnNames(table') = CanonicalNames \cup {"source_file"}
               /\ Len(table'.columns) = Len(fields) + 1
        /\ ProvisioningKeepsRows ]_vars

\* C9 (amended): the same, with the provenance column named file_name.
C9_SchemaClosure ==
    [][ /\ table'.exists
            => /\ ColumnNames(table') = CanonicalNames \cup {"file_name"}
               /\ Len(table'.columns) = Len(fields) + 1
        /\ ProvisioningKeepsRows ]_vars

\* The table is provisioned a second time while it holds rows.
C9_Witness ==
    /\ run = 2 /\ pc = "loop" /\ idx = 1
    /\ table.exists /\ Len(table.rows) > 0

\* C10: a file with an unrecognized column ingests successfully, the column
\* appears nowhere in the projection, and the stored rows are those of the
\* same file without the column.
C10_UnknownColumnTolerance ==
    (LastEngineOk /\ HasUnknownColumn(LastSource))
        => /\ last.insert_ok
           /\ LET items == select_clause(field_map, LastPath, LastSource.columns)
              IN  \A i \in 1..Len(items) : items[i].column \in KnownNames \cup {""}
           /\ NewRows = RowsIngestedFrom(WithoutUnknown(LastSource))

\* A file with a recognized column holding a value and an unrecognized column
\* holding a value has been ingested.
C10_Witness ==
    /\ LastEngineOk /\ last.insert_ok
    /\ LastSource.columns = <<"vendor_id", "extra_col">>
    /\ Len(NewRows) >= 2
    /\ \E r \in 1..Len(NewRows) :
          /\ LastSource.rows[r] = <<"2", "7">>
          /\ NewRows[r][1] = "2"
====
